---- MODULE Spec2Model ----
(***************************************************************************)
(* Model of internal/entity: the ruleset parameter comparison, the ruleset *)
(* directory reader with RuleSet.Validate, and the repository reader with  *)
(* its recursive team-tree walk and Repository.Validate.                   *)
(*                                                                         *)
(* Strings that the code indexes or slices (file names, entity names,      *)
(* include patterns) are sequences of tokens; "." and "~" are tokens of    *)
(* their own.  Paths are sequences of names.                               *)
(***************************************************************************)
EXTENDS Integers, Sequences, FiniteSets, TLC

VARIABLES
    ruletype, left, right, cpc, equal,          \* CompareRulesetParameters call
    reader, pc, stack, repos, rulesets,         \* directory readers
    errors, warning, entry, listed, ret

cmpVars  == <<ruletype, left, right, cpc, equal>>
loadVars == <<reader, pc, stack, repos, rulesets, errors, warning, entry, listed, ret>>
vars     == <<ruletype, left, right, cpc, equal,
              reader, pc, stack, repos, rulesets, errors, warning, entry, listed, ret>>

----------------------------------------------------------------------------
(* Bounds *)

MaxChecks == 2
MaxReviewCount == 1
MaxEntries == 4
MaxRuleSetFiles == 2
MaxDepth == 3
MaxInclude == 2

----------------------------------------------------------------------------
(* RuleSetParameters and CompareRulesetParameters *)

CheckNames == {"a", "b"}

CheckLists == UNION {[1..k -> CheckNames] : k \in 0..MaxChecks}

RuleSetParameters ==
    [DismissStaleReviewsOnPush        : BOOLEAN,
     RequireCodeOwnerReview           : BOOLEAN,
     RequiredApprovingReviewCount     : 0..MaxReviewCount,
     RequiredReviewThreadResolution   : BOOLEAN,
     RequireLastPushApproval          : BOOLEAN,
     RequiredStatusChecks             : CheckLists,
     StrictRequiredStatusChecksPolicy : BOOLEAN]

ZeroParameters ==
    [DismissStaleReviewsOnPush        |-> FALSE,
     RequireCodeOwnerReview           |-> FALSE,
     RequiredApprovingReviewCount     |-> 0,
     RequiredReviewThreadResolution   |-> FALSE,
     RequireLastPushApproval          |-> FALSE,
     RequiredStatusChecks             |-> <<>>,
     StrictRequiredStatusChecksPolicy |-> FALSE]

RuleTypes == {"required_signatures", "pull_request", "required_status_checks", "unknown"}

\* first result of StringArrayEquivalent: the two lists hold the same names
StringArrayEquivalent(a, b) ==
    {a[i] : i \in DOMAIN a} = {b[i] : i \in DOMAIN b}

CompareNoStrict(rt, l, r) ==
    CASE rt = "required_signatures" -> TRUE
      [] rt = "pull_request" ->
            /\ l.DismissStaleReviewsOnPush = r.DismissStaleReviewsOnPush
            /\ l.RequireCodeOwnerReview = r.RequireCodeOwnerReview
            /\ l.RequiredApprovingReviewCount = r.RequiredApprovingReviewCount
            /\ l.RequiredReviewThreadResolution = r.RequiredReviewThreadResolution
            /\ l.RequireLastPushApproval = r.RequireLastPushApproval
      [] rt = "required_status_checks" ->
            StringArrayEquivalent(l.RequiredStatusChecks, r.RequiredStatusChecks)
      [] OTHER -> FALSE

CompareNoLastPush(rt, l, r) ==
    CASE rt = "required_signatures" -> TRUE
      [] rt = "pull_request" ->
            /\ l.DismissStaleReviewsOnPush = r.DismissStaleReviewsOnPush
            /\ l.RequireCodeOwnerReview = r.RequireCodeOwnerReview
            /\ l.RequiredApprovingReviewCount = r.RequiredApprovingReviewCount
            /\ l.RequiredReviewThreadResolution = r.RequiredReviewThreadResolution
      [] rt = "required_status_checks" ->
            /\ StringArrayEquivalent(l.RequiredStatusChecks, r.RequiredStatusChecks)
            /\ l.StrictRequiredStatusChecksPolicy = r.StrictRequiredStatusChecksPolicy
      [] OTHER -> FALSE

CompareRulesetParameters(rt, l, r) ==
    CASE rt = "required_signatures" -> TRUE
      [] rt = "pull_request" ->
            /\ l.DismissStaleReviewsOnPush = r.DismissStaleReviewsOnPush
            /\ l.RequireCodeOwnerReview = r.RequireCodeOwnerReview
            /\ l.RequiredApprovingReviewCount = r.RequiredApprovingReviewCount
            /\ l.RequiredReviewThreadResolution = r.RequiredReviewThreadResolution
            /\ l.RequireLastPushApproval = r.RequireLastPushApproval
      [] rt = "required_status_checks" ->
            /\ StringArrayEquivalent(l.RequiredStatusChecks, r.RequiredStatusChecks)
            /\ l.StrictRequiredStatusChecksPolicy = r.StrictRequiredStatusChecksPolicy
      [] OTHER -> FALSE

\* the call is made with a rule type and a left argument
CmpInit ==
    /\ ruletype \in RuleTypes
    /\ left \in RuleSetParameters
    /\ right = ZeroParameters
    /\ cpc = "call"
    /\ equal = FALSE

CmpIdle ==
    /\ ruletype = "unknown"
    /\ left = ZeroParameters
    /\ right = ZeroParameters
    /\ cpc = "idle"
    /\ equal = FALSE

\* a call with one of the rule types that have parameters
Compare ==
    /\ cpc = "call"
    /\ ruletype \in {"pull_request", "required_status_checks"}
    /\ \E r \in RuleSetParameters :
        /\ right' = r
        /\ equal' = CompareRulesetParameters(ruletype, left, r)
    /\ cpc' = "ret"
    /\ UNCHANGED <<ruletype, left>>
    /\ UNCHANGED loadVars

\* a call with required_signatures or with a rule type the switch does not know
CompareOther ==
    /\ cpc = "call"
    /\ ruletype \notin {"pull_request", "required_status_checks"}
    /\ \E r \in {ZeroParameters, left} :
        /\ right' = r
        /\ equal' = CompareRulesetParameters(ruletype, left, r)
    /\ cpc' = "ret"
    /\ UNCHANGED <<ruletype, left>>
    /\ UNCHANGED loadVars

----------------------------------------------------------------------------
(* Strings, file names and paths *)

\* filepath.Ext: the suffix starting at the last dot, empty without a dot
Ext(name) ==
    LET dots == {i \in DOMAIN name : name[i] = "."}
    IN  IF dots = {} THEN <<>>
        ELSE SubSeq(name, CHOOSE i \in dots : \A j \in dots : j <= i, Len(name))

\* filename[:len(filename)-len(filepath.Ext(filename))]
TrimExt(name) == SubSeq(name, 1, Len(name) - Len(Ext(name)))

\* strings.HasSuffix
HasSuffix(name, suffix) ==
    /\ Len(suffix) <= Len(name)
    /\ SubSeq(name, Len(name) - Len(suffix) + 1, Len(name)) = suffix

\* e.Name()[0] == '.'
IsHidden(name) == name[1] = "."

Join(dir, name) == Append(dir, name)

Base(path) == path[Len(path)]

Dir(path) == SubSeq(path, 1, Len(path) - 1)

YamlExt == <<".", "yaml">>

TeamYaml == <<"team", ".", "yaml">>

\* fmt.Errorf: the kind of message, the value and the file name it embeds
Err(kind, value, file) ==
    [kind |-> kind, value |-> value, file |-> file, existing |-> <<>>]

\* the errors of utils.Exists, of fs.ReadDir and of NewRuleSet/NewRepository
ExistsError == Err("exists", <<>>, <<>>)

ReadDirError == Err("readdir", <<>>, <<>>)

ParseError == Err("parse", <<>>, <<>>)

\* the index at which a loop over a list returns: the first of the failing
\* indices, 0 when there is none
First(failing) ==
    IF failing = {} THEN 0 ELSE CHOOSE i \in failing : \A j \in failing : i <= j

----------------------------------------------------------------------------
(* Repository.Validate *)

\* keys of the teams and externalUsers tables handed to ReadRepositories
Teams == {"t1", "t2"}

ExternalUsers == {"u1"}

SafeTokens == {"a", "b", "t1", "t2", ".", "-", "_"}

\* utils.GithubAnsiString: every character GitHub does not accept becomes "-"
GithubAnsiString(name) ==
    [i \in DOMAIN name |-> IF name[i] \in SafeTokens THEN name[i] ELSE "-"]

ValidEnforcement(e) == e \in {"disable", "active", "evaluate"}

\* the first failing ruleset of the list and the check it fails (lines 220-232)
RepositoryRulesetFault(rs, i) ==
    IF rs[i].Name = <<>> THEN "name"
    ELSE IF ~ValidEnforcement(rs[i].Enforcement) THEN "enforcement"
    ELSE IF \E j \in 1..(i - 1) : rs[j].Name = rs[i].Name THEN "uniq"
    ELSE "ok"

RepositoryValidate(r, filename, teams, externalUsers) ==
    LET base == Base(filename)
        w  == First({i \in DOMAIN r.Writers : r.Writers[i] \notin teams})
        rd == First({i \in DOMAIN r.Readers : r.Readers[i] \notin teams})
        er == First({i \in DOMAIN r.ExternalUserReaders : r.ExternalUserReaders[i] \notin externalUsers})
        ew == First({i \in DOMAIN r.ExternalUserWriters : r.ExternalUserWriters[i] \notin externalUsers})
        rsi == First({i \in DOMAIN r.Rulesets : RepositoryRulesetFault(r.Rulesets, i) # "ok"})
    IN  IF r.ApiVersion # "v1" THEN <<Err("apiVersion", <<r.ApiVersion>>, filename)>>
        ELSE IF r.Kind # "Repository" THEN <<Err("kind", <<r.Kind>>, filename)>>
        ELSE IF r.Name = <<>> THEN <<Err("emptyname", <<>>, filename)>>
        ELSE IF r.Name # TrimExt(base) THEN <<Err("name", r.Name, <<base>>)>>
        ELSE IF w # 0 THEN <<Err("writer", <<r.Writers[w]>>, <<base>>)>>
        ELSE IF rd # 0 THEN <<Err("reader", <<r.Readers[rd]>>, <<base>>)>>
        ELSE IF er # 0 THEN <<Err("externalUserReader", <<r.ExternalUserReaders[er]>>, <<base>>)>>
        ELSE IF ew # 0 THEN <<Err("externalUserWriter", <<r.ExternalUserWriters[ew]>>, <<base>>)>>
        ELSE IF rsi # 0 THEN
            LET f == RepositoryRulesetFault(r.Rulesets, rsi)
            IN  IF f = "name" THEN <<Err("rulesetname", <<>>, <<>>)>>
                ELSE IF f = "enforcement" THEN <<Err("rulesetenforcement", r.Rulesets[rsi].Name, <<>>)>>
                ELSE <<Err("rulesetuniq", r.Rulesets[rsi].Name, <<>>)>>
        ELSE IF GithubAnsiString(r.Name) # r.Name THEN <<Err("ansi", r.Name, <<base>>)>>
        ELSE <<>>

----------------------------------------------------------------------------
(* RuleSet.Validate *)

SupportedRuletypes == {"required_signatures", "pull_request", "required_status_checks"}

BypassModes == {"always", "pull_request"}

IncludeSentinels == {<<"~", "DEFAULT_BRANCH">>, <<"~", "ALL">>}

\* the result of a call: it panics, or it returns err (empty for nil)
Returned(err) == [panic |-> FALSE, err |-> err]

Panicked == [panic |-> TRUE, err |-> <<>>]

\* on[0] == '~' && (on != "~DEFAULT_BRANCH" && on != "~ALL"), for a non-empty on
BadInclude(on) == on[1] = "~" /\ on \notin IncludeSentinels
\* the enforcement check is made before the rule types are looked at
RuleSetValidateEnforcementFirst(r, filename) ==
    LET base == Base(filename)
        ru == First({i \in DOMAIN r.Rules : r.Rules[i].Ruletype \notin SupportedRuletypes})
        ba == First({i \in DOMAIN r.BypassApps : r.BypassApps[i].Mode \notin BypassModes})
        inc == First({i \in DOMAIN r.Include : r.Include[i] = <<>> \/ BadInclude(r.Include[i])})
    IN  IF r.ApiVersion # "v1" THEN Returned(<<Err("apiVersion", <<r.ApiVersion>>, filename)>>)
        ELSE IF r.Kind # "Ruleset" THEN Returned(<<Err("kind", <<r.Kind>>, filename)>>)
        ELSE IF r.Name = <<>> THEN Returned(<<Err("emptyname", <<>>, filename)>>)
        ELSE IF r.Name # TrimExt(base) THEN Returned(<<Err("name", r.Name, <<base>>)>>)
        ELSE IF ~ValidEnforcement(r.Enforcement) THEN
            Returned(<<Err("enforcement", <<r.Enforcement>>, <<base>>)>>)
        ELSE IF ru # 0 THEN Returned(<<Err("ruletype", <<r.Rules[ru].Ruletype>>, <<base>>)>>)
        ELSE IF ba # 0 THEN Returned(<<Err("mode", <<r.BypassApps[ba].Mode>>, <<base>>)>>)
        ELSE IF inc # 0 THEN
            IF r.Include[inc] = <<>> THEN Panicked
            ELSE Returned(<<Err("include", r.Include[inc], <<base>>)>>)
        ELSE Returned(<<>>)

RuleSetValidate(r, filename) ==
    LET base == Base(filename)
        ru == First({i \in DOMAIN r.Rules : r.Rules[i].Ruletype \notin SupportedRuletypes})
        ba == First({i \in DOMAIN r.BypassApps : r.BypassApps[i].Mode \notin BypassModes})
        \* the loop stops at the first entry that cannot be indexed or is rejected
        inc == First({i \in DOMAIN r.Include : r.Include[i] = <<>> \/ BadInclude(r.Include[i])})
    IN  IF r.ApiVersion # "v1" THEN Returned(<<Err("apiVersion", <<r.ApiVersion>>, filename)>>)
        ELSE IF r.Kind # "Ruleset" THEN Returned(<<Err("kind", <<r.Kind>>, filename)>>)
        ELSE IF r.Name = <<>> THEN Returned(<<Err("emptyname", <<>>, filename)>>)
        ELSE IF r.Name # TrimExt(base) THEN Returned(<<Err("name", r.Name, <<base>>)>>)
        ELSE IF ru # 0 THEN Returned(<<Err("ruletype", <<r.Rules[ru].Ruletype>>, <<base>>)>>)
        ELSE IF ~ValidEnforcement(r.Enforcement) THEN
            Returned(<<Err("enforcement", <<r.Enforcement>>, <<base>>)>>)
        ELSE IF ba # 0 THEN Returned(<<Err("mode", <<r.BypassApps[ba].Mode>>, <<base>>)>>)
        ELSE IF inc # 0 THEN
            IF r.Include[inc] = <<>> THEN Panicked
            ELSE Returned(<<Err("include", r.Include[inc], <<base>>)>>)
        ELSE Returned(<<>>)

----------------------------------------------------------------------------
(* Documents and directory entries the readers are run on *)

ArchivedDirname == <<<<"archived">>>>

TeamDirname == <<<<"teams">>>>

RuleSetDirname == <<<<"rulesets">>>>

\* a parsed Repository document; archived is the value the document authors
ValidRepository(name, archived) ==
    [ApiVersion |-> "v1", Kind |-> "Repository", Name |-> name,
     Writers |-> <<"t1">>, Readers |-> <<>>,
     ExternalUserReaders |-> <<"u1">>, ExternalUserWriters |-> <<>>,
     Rulesets |-> <<[Name |-> <<"r">>, Enforcement |-> "active"]>>,
     Archived |-> archived, Owner |-> <<>>, DirectoryPath |-> <<>>]

\* a directory entry: its name, whether it is a directory, and what the YAML
\* decoder makes of its content (empty when the file cannot be read or parsed)
File(name, content) == [name |-> name, isDir |-> FALSE, content |-> content]

Directory(name) == [name |-> name, isDir |-> TRUE, content |-> <<>>]

DirectoryEntries ==
    {Directory(<<"t1">>), Directory(<<"t2">>), Directory(<<".", "git">>)}

RepositoryEntries ==
    {File(<<"a", ".", "yaml">>, <<ValidRepository(<<"a">>, TRUE)>>),
     File(<<"b", ".", "yaml">>, <<ValidRepository(<<"b">>, FALSE)>>),
     File(<<"b", ".", "yaml">>,
          <<[ValidRepository(<<"b">>, FALSE) EXCEPT
                !.Rulesets = <<[Name |-> <<>>, Enforcement |-> "weird"]>>]>>),
     File(<<"a", ".", "yaml">>, <<>>),
     File(<<".", "a", ".", "yaml">>, <<ValidRepository(<<".", "a">>, FALSE)>>),
     File(<<"#", ".", "yaml">>, <<ValidRepository(<<"#">>, FALSE)>>),
     File(TeamYaml, <<[ValidRepository(<<"team">>, FALSE) EXCEPT !.Kind = "Team"]>>),
     File(<<"README">>, <<>>)}
    \cup DirectoryEntries

ValidRuleSet(name) ==
    [ApiVersion |-> "v1", Kind |-> "Ruleset", Name |-> name,
     Enforcement |-> "active",
     BypassApps |-> <<[AppName |-> "app", Mode |-> "always"]>>,
     Include |-> <<<<"~", "DEFAULT_BRANCH">>>>,
     Rules |-> <<[Ruletype |-> "pull_request"]>>]

IncludePatterns == {<<>>, <<"~", "ALL">>, <<"~", "x">>, <<"main">>}

\* every combination of passing and failing checks of RuleSet.Validate
RuleSetDocuments ==
    [ApiVersion : {"v1", "v2"},
     Kind       : {"Ruleset", "Repository"},
     Name       : {<<>>, <<"a">>, <<"b">>},
     Enforcement: {"active", "disable", "evaluate", "weird"},
     BypassApps : {<<>>, <<[AppName |-> "app", Mode |-> "sometimes"]>>},
     Include    : UNION {[1..k -> IncludePatterns] : k \in 0..MaxInclude},
     Rules      : {<<>>, <<[Ruletype |-> "bogus"]>>,
                   <<[Ruletype |-> "required_signatures"], [Ruletype |-> "pull_request"]>>}]

RuleSetSamples ==
    {File(<<"a", ".", "yaml">>, <<ValidRuleSet(<<"a">>)>>),
     File(<<"b", ".", "yml">>, <<ValidRuleSet(<<"b">>)>>),
     File(<<"b", ".", "yaml">>, <<[ValidRuleSet(<<"b">>) EXCEPT !.Enforcement = "weird"]>>),
     File(<<"c", ".", "yaml">>, <<[ValidRuleSet(<<"c">>) EXCEPT !.Include = <<<<"main">>, <<>>>>]>>),
     File(<<"c", ".", "yaml">>, <<>>),
     File(<<".", "a", ".", "yaml">>, <<ValidRuleSet(<<".", "a">>)>>),
     Directory(<<"t1">>),
     Directory(<<".", "git">>)}

\* the first file listed ranges over every document, the later ones over samples
RuleSetEntries(n) ==
    IF n = 0
    THEN RuleSetSamples \cup {File(<<"a", ".", "yaml">>, <<d>>) : d \in RuleSetDocuments}
    ELSE RuleSetSamples

----------------------------------------------------------------------------
(* State of a reader call *)

\* a directory being listed: its path, the team name the call was given,
\* and the names listed so far
Frame(dir, team) == [dir |-> dir, team |-> team, seen |-> {}]

Top == stack[Len(stack)]

\* before the first entry is listed
NoEntry == [path |-> <<>>, isDir |-> FALSE, content |-> <<>>, phase |-> "none"]

\* the entry is listed next in the directory on top of the stack
Listed(e) ==
    /\ e.name \notin Top.seen
    /\ stack' = [stack EXCEPT ![Len(stack)].seen = @ \cup {e.name}]
    /\ entry' = [path |-> Join(Top.dir, e.name), isDir |-> e.isDir,
                 content |-> e.content, phase |-> pc]
    /\ listed' = listed + 1

\* m[k] = v
Put(m, k, v) == [n \in DOMAIN m \cup {k} |-> IF n = k THEN v ELSE m[n]]

LoadInit ==
    /\ reader \in {"rulesets", "repositories"}
    /\ pc = "start"
    /\ stack = <<>>
    /\ repos = <<>>
    /\ rulesets = <<>>
    /\ errors = <<>>
    /\ warning = <<>>
    /\ entry = NoEntry
    /\ listed = 0
    /\ ret = "none"

\* return rulesets/repos (or nil), errors, warning
Return(value) ==
    /\ pc' = "done"
    /\ ret' = value
    /\ stack' = <<>>

----------------------------------------------------------------------------
(* ReadRuleSetDirectory *)

\* utils.Exists fails
RuleSetExistsError ==
    /\ reader = "rulesets" /\ pc = "start"
    /\ errors' = Append(errors, ExistsError)
    /\ Return("map")
    /\ UNCHANGED cmpVars
    /\ UNCHANGED <<reader, repos, rulesets, warning, entry, listed>>

RuleSetDirMissing ==
    /\ reader = "rulesets" /\ pc = "start"
    /\ Return("map")
    /\ UNCHANGED cmpVars
    /\ UNCHANGED <<reader, repos, rulesets, errors, warning, entry, listed>>

RuleSetReadDirError ==
    /\ reader = "rulesets" /\ pc = "start"
    /\ errors' = Append(errors, ReadDirError)
    /\ Return("map")
    /\ UNCHANGED cmpVars
    /\ UNCHANGED <<reader, repos, rulesets, warning, entry, listed>>

RuleSetReadDir ==
    /\ reader = "rulesets" /\ pc = "start"
    /\ pc' = "scan"
    /\ stack' = <<Frame(RuleSetDirname, <<>>)>>
    /\ UNCHANGED cmpVars
    /\ UNCHANGED <<reader, repos, rulesets, errors, warning, entry, listed, ret>>

\* directories and hidden files are skipped
RuleSetSkips(e) == e.isDir \/ IsHidden(e.name)

RuleSetSkip ==
    /\ pc = "scan" /\ listed < MaxRuleSetFiles
    /\ \E e \in RuleSetEntries(listed) :
        /\ RuleSetSkips(e)
        /\ Listed(e)
    /\ UNCHANGED cmpVars
    /\ UNCHANGED <<reader, pc, repos, rulesets, errors, warning, ret>>

\* NewRuleSet fails
RuleSetParseError ==
    /\ pc = "scan" /\ listed < MaxRuleSetFiles
    /\ \E e \in RuleSetEntries(listed) :
        /\ ~RuleSetSkips(e)
        /\ e.content = <<>>
        /\ Listed(e)
    /\ errors' = Append(errors, ParseError)
    /\ UNCHANGED cmpVars
    /\ UNCHANGED <<reader, pc, repos, rulesets, warning, ret>>
\* the loop returns at the first validation error
RuleSetInvalidReturns ==
    /\ pc = "scan" /\ listed < MaxRuleSetFiles
    /\ \E e \in RuleSetEntries(listed) :
        /\ ~RuleSetSkips(e)
        /\ e.content # <<>>
        /\ LET res == RuleSetValidate(e.content[1], Join(Top.dir, e.name))
           IN  /\ ~res.panic
               /\ res.err # <<>>
               /\ errors' = Append(errors, res.err[1])
        /\ entry' = [path |-> Join(Top.dir, e.name), isDir |-> e.isDir,
                     content |-> e.content, phase |-> pc]
        /\ listed' = listed + 1
    /\ Return("map")
    /\ UNCHANGED cmpVars
    /\ UNCHANGED <<reader, repos, rulesets, warning>>

RuleSetInvalid ==
    /\ pc = "scan" /\ listed < MaxRuleSetFiles
    /\ \E e \in RuleSetEntries(listed) :
        /\ ~RuleSetSkips(e)
        /\ e.content # <<>>
        /\ LET res == RuleSetValidate(e.content[1], Join(Top.dir, e.name))
           IN  /\ ~res.panic
               /\ res.err # <<>>
               /\ errors' = Append(errors, res.err[1])
        /\ Listed(e)
    /\ UNCHANGED cmpVars
    /\ UNCHANGED <<reader, pc, repos, rulesets, warning, ret>>

RuleSetLoaded ==
    /\ pc = "scan" /\ listed < MaxRuleSetFiles
    /\ \E e \in RuleSetEntries(listed) :
        /\ ~RuleSetSkips(e)
        /\ e.content # <<>>
        /\ LET res == RuleSetValidate(e.content[1], Join(Top.dir, e.name))
           IN  /\ ~res.panic
               /\ res.err = <<>>
               /\ rulesets' = Put(rulesets, e.content[1].Name, e.content[1])
        /\ Listed(e)
    /\ UNCHANGED cmpVars
    /\ UNCHANGED <<reader, pc, repos, errors, warning, ret>>

\* Validate indexes an empty include entry: the call never returns
RuleSetPanic ==
    /\ pc = "scan" /\ listed < MaxRuleSetFiles
    /\ \E e \in RuleSetEntries(listed) :
        /\ ~RuleSetSkips(e)
        /\ e.content # <<>>
        /\ RuleSetValidate(e.content[1], Join(Top.dir, e.name)).panic
        /\ Listed(e)
    /\ pc' = "crashed"
    /\ UNCHANGED cmpVars
    /\ UNCHANGED <<reader, repos, rulesets, errors, warning, ret>>

RuleSetReturn ==
    /\ pc = "scan"
    /\ Return("map")
    /\ UNCHANGED cmpVars
    /\ UNCHANGED <<reader, repos, rulesets, errors, warning, entry, listed>>

ReadRuleSetDirectory ==
    \/ RuleSetExistsError
    \/ RuleSetDirMissing
    \/ RuleSetReadDirError
    \/ RuleSetReadDir
    \/ RuleSetSkip
    \/ RuleSetParseError
    \/ RuleSetInvalid
    \/ RuleSetLoaded
    \/ RuleSetPanic
    \/ RuleSetReturn

----------------------------------------------------------------------------
(* ReadRepositories and recursiveReadRepositories *)

\* NewRepository: the decoded document with DirectoryPath set
NewRepository(path, content) ==
    IF content = <<>> THEN <<>>
    ELSE <<[content[1] EXCEPT !.DirectoryPath = Dir(path)]>>
\* the archived flag is left as the document has it
KeepArchived(repo) == repo

\* repo.Archived = true
MarkArchived(repo) == [repo EXCEPT !.Archived = TRUE]
\* the team name of the directory above is handed down unchanged
KeepTeamName(teamName, subName) == teamName

\* the team name handed to the recursive call for a subdirectory
ChildTeamName(teamName, subName) == subName
\* the lookup never finds the repository
NeverExists(m, name) == FALSE

\* _, exist := repos[repo.Name]
AlreadyExists(m, name) == name \in DOMAIN m

\* where the message says the repository is already defined
ExistingLocation(archivedDirPath, existing, name) ==
    IF existing.Owner # <<>> THEN <<existing.Owner[1], name>>
    ELSE Join(archivedDirPath, name)

DefinedTwice(name, path, existing) ==
    [kind |-> "defined2", value |-> name, file |-> path, existing |-> existing]

\* teamname := teamName; repo.Owner = &teamname; repo.Archived = false
OwnedBy(repo, teamName) == [repo EXCEPT !.Owner = <<teamName>>, !.Archived = FALSE]

ArchivedExistsError ==
    /\ reader = "repositories" /\ pc = "start"
    /\ errors' = Append(errors, ExistsError)
    /\ Return("map")
    /\ UNCHANGED cmpVars
    /\ UNCHANGED <<reader, repos, rulesets, warning, entry, listed>>

ArchivedDirMissing ==
    /\ reader = "repositories" /\ pc = "start"
    /\ pc' = "teamdir"
    /\ UNCHANGED cmpVars
    /\ UNCHANGED <<reader, stack, repos, rulesets, errors, warning, entry, listed, ret>>

ArchivedReadDirError ==
    /\ reader = "repositories" /\ pc = "start"
    /\ errors' = Append(errors, ReadDirError)
    /\ Return("nil")
    /\ UNCHANGED cmpVars
    /\ UNCHANGED <<reader, repos, rulesets, warning, entry, listed>>

ArchivedReadDir ==
    /\ reader = "repositories" /\ pc = "start"
    /\ pc' = "archive"
    /\ stack' = <<Frame(ArchivedDirname, <<>>)>>
    /\ UNCHANGED cmpVars
    /\ UNCHANGED <<reader, repos, rulesets, errors, warning, entry, listed, ret>>

ArchivedSkips(e) == e.isDir \/ IsHidden(e.name)

ArchivedSkip ==
    /\ pc = "archive" /\ listed < MaxEntries
    /\ \E e \in RepositoryEntries :
        /\ ArchivedSkips(e)
        /\ Listed(e)
    /\ UNCHANGED cmpVars
    /\ UNCHANGED <<reader, pc, repos, rulesets, errors, warning, ret>>

ArchivedNotYaml ==
    /\ pc = "archive" /\ listed < MaxEntries
    /\ \E e \in RepositoryEntries :
        /\ ~ArchivedSkips(e)
        /\ ~HasSuffix(e.name, YamlExt)
        /\ warning' = Append(warning, Err("extension", <<>>, <<e.name>>))
        /\ Listed(e)
    /\ UNCHANGED cmpVars
    /\ UNCHANGED <<reader, pc, repos, rulesets, errors, ret>>

ArchivedParseError ==
    /\ pc = "archive" /\ listed < MaxEntries
    /\ \E e \in RepositoryEntries :
        /\ ~ArchivedSkips(e)
        /\ HasSuffix(e.name, YamlExt)
        /\ NewRepository(Join(Top.dir, e.name), e.content) = <<>>
        /\ Listed(e)
    /\ errors' = Append(errors, ParseError)
    /\ UNCHANGED cmpVars
    /\ UNCHANGED <<reader, pc, repos, rulesets, warning, ret>>

ArchivedInvalid ==
    /\ pc = "archive" /\ listed < MaxEntries
    /\ \E e \in RepositoryEntries :
        LET path == Join(Top.dir, e.name)
            repo == NewRepository(path, e.content)
        IN  /\ ~ArchivedSkips(e)
            /\ HasSuffix(e.name, YamlExt)
            /\ repo # <<>>
            /\ RepositoryValidate(repo[1], path, Teams, ExternalUsers) # <<>>
            /\ errors' = Append(errors, RepositoryValidate(repo[1], path, Teams, ExternalUsers)[1])
            /\ Listed(e)
    /\ UNCHANGED cmpVars
    /\ UNCHANGED <<reader, pc, repos, rulesets, warning, ret>>

ArchivedLoaded ==
    /\ pc = "archive" /\ listed < MaxEntries
    /\ \E e \in RepositoryEntries :
        LET path == Join(Top.dir, e.name)
            repo == NewRepository(path, e.content)
        IN  /\ ~ArchivedSkips(e)
            /\ HasSuffix(e.name, YamlExt)
            /\ repo # <<>>
            /\ RepositoryValidate(repo[1], path, Teams, ExternalUsers) = <<>>
            /\ repos' = Put(repos, repo[1].Name, MarkArchived(repo[1]))
            /\ Listed(e)
    /\ UNCHANGED cmpVars
    /\ UNCHANGED <<reader, pc, rulesets, errors, warning, ret>>

ArchivedDone ==
    /\ pc = "archive"
    /\ pc' = "teamdir"
    /\ stack' = <<>>
    /\ UNCHANGED cmpVars
    /\ UNCHANGED <<reader, repos, rulesets, errors, warning, entry, listed, ret>>

TeamExistsError ==
    /\ pc = "teamdir"
    /\ errors' = Append(errors, ExistsError)
    /\ Return("map")
    /\ UNCHANGED cmpVars
    /\ UNCHANGED <<reader, repos, rulesets, warning, entry, listed>>

TeamDirMissing ==
    /\ pc = "teamdir"
    /\ Return("map")
    /\ UNCHANGED cmpVars
    /\ UNCHANGED <<reader, repos, rulesets, errors, warning, entry, listed>>

TeamReadDirError ==
    /\ pc = "teamdir"
    /\ errors' = Append(errors, ReadDirError)
    /\ Return("nil")
    /\ UNCHANGED cmpVars
    /\ UNCHANGED <<reader, repos, rulesets, warning, entry, listed>>

TeamReadDir ==
    /\ pc = "teamdir"
    /\ pc' = "teams"
    /\ stack' = <<Frame(TeamDirname, <<>>)>>
    /\ UNCHANGED cmpVars
    /\ UNCHANGED <<reader, repos, rulesets, errors, warning, entry, listed, ret>>

\* a file directly in the team root is not looked at
TeamSkipFile ==
    /\ pc = "teams" /\ Len(stack) = 1 /\ listed < MaxEntries
    /\ \E e \in RepositoryEntries :
        /\ ~e.isDir
        /\ Listed(e)
    /\ UNCHANGED cmpVars
    /\ UNCHANGED <<reader, pc, repos, rulesets, errors, warning, ret>>

\* recursiveReadRepositories is called on every directory of the team root
TeamDescend ==
    /\ pc = "teams" /\ Len(stack) = 1 /\ listed < MaxEntries
    /\ \E e \in RepositoryEntries :
        /\ e.isDir
        /\ e.name \notin Top.seen
        /\ stack' = Append([stack EXCEPT ![Len(stack)].seen = @ \cup {e.name}],
                           Frame(Join(Top.dir, e.name), e.name))
        /\ entry' = [path |-> Join(Top.dir, e.name), isDir |-> TRUE,
                     content |-> <<>>, phase |-> pc]
        /\ listed' = listed + 1
    /\ UNCHANGED cmpVars
    /\ UNCHANGED <<reader, pc, repos, rulesets, errors, warning, ret>>

\* fs.ReadDir fails in the call made for a directory of the team root
TeamSubdirError ==
    /\ pc = "teams" /\ Len(stack) = 1 /\ listed < MaxEntries
    /\ \E e \in RepositoryEntries :
        /\ e.isDir
        /\ Listed(e)
    /\ errors' = Append(errors, ReadDirError)
    /\ UNCHANGED cmpVars
    /\ UNCHANGED <<reader, pc, repos, rulesets, warning, ret>>

TeamsReturn ==
    /\ pc = "teams" /\ Len(stack) = 1
    /\ Return("map")
    /\ UNCHANGED cmpVars
    /\ UNCHANGED <<reader, repos, rulesets, errors, warning, entry, listed>>

\* sube.IsDir() && sube.Name()[0] != '.'
WalkEnters(e) == e.isDir /\ ~IsHidden(e.name)

\* !sube.IsDir() && filepath.Ext(sube.Name()) == ".yaml" && sube.Name() != "team.yaml"
WalkReads(e) == ~e.isDir /\ Ext(e.name) = YamlExt /\ e.name # TeamYaml

WalkDescend ==
    /\ pc = "teams" /\ Len(stack) > 1 /\ Len(stack) <= MaxDepth /\ listed < MaxEntries
    /\ \E e \in RepositoryEntries :
        /\ WalkEnters(e)
        /\ e.name \notin Top.seen
        /\ stack' = Append([stack EXCEPT ![Len(stack)].seen = @ \cup {e.name}],
                           Frame(Join(Top.dir, e.name), ChildTeamName(Top.team, e.name)))
        /\ entry' = [path |-> Join(Top.dir, e.name), isDir |-> TRUE,
                     content |-> <<>>, phase |-> pc]
        /\ listed' = listed + 1
    /\ UNCHANGED cmpVars
    /\ UNCHANGED <<reader, pc, repos, rulesets, errors, warning, ret>>

WalkSubdirError ==
    /\ pc = "teams" /\ Len(stack) > 1 /\ Len(stack) <= MaxDepth /\ listed < MaxEntries
    /\ \E e \in RepositoryEntries :
        /\ WalkEnters(e)
        /\ Listed(e)
    /\ errors' = Append(errors, ReadDirError)
    /\ UNCHANGED cmpVars
    /\ UNCHANGED <<reader, pc, repos, rulesets, warning, ret>>

WalkSkip ==
    /\ pc = "teams" /\ Len(stack) > 1 /\ listed < MaxEntries
    /\ \E e \in RepositoryEntries :
        /\ ~WalkEnters(e)
        /\ ~WalkReads(e)
        /\ e.isDir => IsHidden(e.name)
        /\ Listed(e)
    /\ UNCHANGED cmpVars
    /\ UNCHANGED <<reader, pc, repos, rulesets, errors, warning, ret>>

WalkParseError ==
    /\ pc = "teams" /\ Len(stack) > 1 /\ listed < MaxEntries
    /\ \E e \in RepositoryEntries :
        /\ WalkReads(e)
        /\ NewRepository(Join(Top.dir, e.name), e.content) = <<>>
        /\ Listed(e)
    /\ errors' = Append(errors, ParseError)
    /\ UNCHANGED cmpVars
    /\ UNCHANGED <<reader, pc, repos, rulesets, warning, ret>>

WalkInvalid ==
    /\ pc = "teams" /\ Len(stack) > 1 /\ listed < MaxEntries
    /\ \E e \in RepositoryEntries :
        LET path == Join(Top.dir, e.name)
            repo == NewRepository(path, e.content)
        IN  /\ WalkReads(e)
            /\ repo # <<>>
            /\ RepositoryValidate(repo[1], path, Teams, ExternalUsers) # <<>>
            /\ errors' = Append(errors, RepositoryValidate(repo[1], path, Teams, ExternalUsers)[1])
            /\ Listed(e)
    /\ UNCHANGED cmpVars
    /\ UNCHANGED <<reader, pc, repos, rulesets, warning, ret>>

WalkDefinedTwice ==
    /\ pc = "teams" /\ Len(stack) > 1 /\ listed < MaxEntries
    /\ \E e \in RepositoryEntries :
        LET path == Join(Top.dir, e.name)
            repo == NewRepository(path, e.content)
        IN  /\ WalkReads(e)
            /\ repo # <<>>
            /\ RepositoryValidate(repo[1], path, Teams, ExternalUsers) = <<>>
            /\ AlreadyExists(repos, repo[1].Name)
            /\ errors' = Append(errors,
                    DefinedTwice(repo[1].Name, path,
                        ExistingLocation(ArchivedDirname, repos[repo[1].Name], repo[1].Name)))
            /\ Listed(e)
    /\ UNCHANGED cmpVars
    /\ UNCHANGED <<reader, pc, repos, rulesets, warning, ret>>

WalkLoaded ==
    /\ pc = "teams" /\ Len(stack) > 1 /\ listed < MaxEntries
    /\ \E e \in RepositoryEntries :
        LET path == Join(Top.dir, e.name)
            repo == NewRepository(path, e.content)
        IN  /\ WalkReads(e)
            /\ repo # <<>>
            /\ RepositoryValidate(repo[1], path, Teams, ExternalUsers) = <<>>
            /\ ~AlreadyExists(repos, repo[1].Name)
            /\ repos' = Put(repos, repo[1].Name, OwnedBy(repo[1], Top.team))
            /\ Listed(e)
    /\ UNCHANGED cmpVars
    /\ UNCHANGED <<reader, pc, rulesets, errors, warning, ret>>

\* the recursive call returns to the directory above
WalkReturn ==
    /\ pc = "teams" /\ Len(stack) > 1
    /\ stack' = SubSeq(stack, 1, Len(stack) - 1)
    /\ UNCHANGED cmpVars
    /\ UNCHANGED <<reader, pc, repos, rulesets, errors, warning, entry, listed, ret>>

ReadRepositories ==
    \/ ArchivedExistsError
    \/ ArchivedDirMissing
    \/ ArchivedReadDirError
    \/ ArchivedReadDir
    \/ ArchivedSkip
    \/ ArchivedNotYaml
    \/ ArchivedParseError
    \/ ArchivedInvalid
    \/ ArchivedLoaded
    \/ ArchivedDone
    \/ TeamExistsError
    \/ TeamDirMissing
    \/ TeamReadDirError
    \/ TeamReadDir
    \/ TeamSkipFile
    \/ TeamDescend
    \/ TeamSubdirError
    \/ TeamsReturn
    \/ WalkDescend
    \/ WalkSubdirError
    \/ WalkSkip
    \/ WalkParseError
    \/ WalkInvalid
    \/ WalkDefinedTwice
    \/ WalkLoaded
    \/ WalkReturn

LoadIdle ==
    /\ reader = "none"
    /\ pc = "idle"
    /\ stack = <<>>
    /\ repos = <<>>
    /\ rulesets = <<>>
    /\ errors = <<>>
    /\ warning = <<>>
    /\ entry = NoEntry
    /\ listed = 0
    /\ ret = "none"

InitCompare == CmpInit /\ LoadIdle

NextCompare == Compare \/ CompareOther

SpecCompare == InitCompare /\ [][NextCompare]_vars

Init == LoadInit /\ CmpIdle

Next == ReadRuleSetDirectory \/ ReadRepositories

Spec == Init /\ [][Next]_vars

----------------------------------------------------------------------------
(* Properties *)

\* a step that lists one more directory entry; entry' is that entry
JustListed == listed' = listed + 1

ListedName == Base(entry'.path)

\* the repository document NewRepository makes of the listed file
ListedRepository == NewRepository(entry'.path, entry'.content)[1]

ListedRepositoryValid ==
    /\ entry'.content # <<>>
    /\ RepositoryValidate(ListedRepository, entry'.path, Teams, ExternalUsers) = <<>>

ListedRepositoryFails ==
    \/ entry'.content = <<>>
    \/ RepositoryValidate(ListedRepository, entry'.path, Teams, ExternalUsers) # <<>>

\* a repository file X.yaml in a directory below the team root
ListedTeamFile ==
    /\ JustListed
    /\ entry'.phase = "teams"
    /\ Len(entry'.path) >= 3
    /\ ~entry'.isDir
    /\ Ext(ListedName) = <<".", "yaml">>
    /\ ListedName # <<"team", ".", "yaml">>

\* a repository file X.yaml directly in the archive directory
ListedArchivedFile ==
    /\ JustListed
    /\ entry'.phase = "archive"
    /\ ~entry'.isDir
    /\ ListedName[1] # "."
    /\ Ext(ListedName) = <<".", "yaml">>

\* a file of the ruleset directory
ListedRuleSetFile ==
    /\ JustListed
    /\ entry'.phase = "scan"
    /\ ~entry'.isDir
    /\ ListedName[1] # "."

OneMoreError ==
    /\ Len(errors') = Len(errors) + 1
    /\ SubSeq(errors', 1, Len(errors)) = errors

LastError == errors'[Len(errors')]

ListedCollision ==
    /\ ListedTeamFile
    /\ ListedRepositoryValid
    /\ TrimExt(ListedName) \in DOMAIN repos
    /\ repos[TrimExt(ListedName)].DirectoryPath = <<<<"archived">>>>

CollisionReported ==
    /\ OneMoreError
    /\ LastError.kind = "defined2"
    /\ LastError.value = TrimExt(ListedName)
    /\ LastError.file = entry'.path
    /\ LastError.existing = <<<<"archived">>, TrimExt(ListedName)>>

\* C2 (as amended): a valid team-tree file named N, when the archive holds a
\* valid file named N, adds exactly one error, which names the team-tree file
\* and the archive directory joined with N; the team-tree definition is not
\* inserted and the map keeps the archived entry of N, archived and unowned.
C2_CollisionKeepsArchived ==
    [][ListedCollision
        => /\ CollisionReported
           /\ repos' = repos
           /\ repos'[TrimExt(ListedName)].Archived
           /\ repos'[TrimExt(ListedName)].Owner = <<>>]_vars

\* C2 (original): ... adds exactly one error naming both places, and N is
\* absent from the result map.
C2_CollisionRemoves ==
    [][ListedCollision
        => /\ CollisionReported
           /\ TrimExt(ListedName) \notin DOMAIN repos']_vars

C2_Witness ==
    /\ pc = "done"
    /\ ret = "map"
    /\ \E i \in DOMAIN errors :
        /\ errors[i].kind = "defined2"
        /\ errors[i].existing = <<<<"archived">>, errors[i].value>>
        /\ Len(errors[i].file) >= 3
        /\ errors[i].value \in DOMAIN repos
        /\ repos[errors[i].value].Archived

\* C3: a listed entry whose name begins with "." is not parsed and not
\* descended into, and adds no entity, no error and no warning.
C3_HiddenIgnored ==
    [][(JustListed /\ ListedName[1] = ".")
        => /\ repos' = repos
           /\ rulesets' = rulesets
           /\ errors' = errors
           /\ warning' = warning
           /\ Len(stack') = Len(stack)]_vars

\* C4: every error Validate returns for a listed file embeds the path of the
\* file that was handed to it.
C4_ErrorEmbedsPath ==
    [][(JustListed /\ OneMoreError
            /\ LastError.kind \notin {"exists", "readdir", "parse", "defined2"})
        => LastError.file = entry'.path]_vars

\* the outcome of RuleSet.Validate on the listed ruleset file
ListedRuleSetResult == RuleSetValidate(entry'.content[1], entry'.path)

\* C5: a file that fails parsing or validation adds exactly one error, leaves
\* the maps as they are and the scan goes on; a valid file whose name is free
\* is put in the map, whatever was listed before it; nothing that was loaded
\* from a repository file is lost afterwards.
C5_ScanGoesOn ==
    [][/\ (ListedRuleSetFile /\ entry'.content = <<>>)
            => (OneMoreError /\ rulesets' = rulesets /\ pc' = pc)
       /\ (ListedRuleSetFile /\ entry'.content # <<>> /\ ~ListedRuleSetResult.panic)
            => IF ListedRuleSetResult.err # <<>>
               THEN OneMoreError /\ rulesets' = rulesets /\ pc' = pc
               ELSE /\ errors' = errors /\ pc' = pc
                    /\ entry'.content[1].Name \in DOMAIN rulesets'
                    /\ rulesets'[entry'.content[1].Name] = entry'.content[1]
                    /\ \A n \in DOMAIN rulesets :
                        /\ n \in DOMAIN rulesets'
                        /\ n # entry'.content[1].Name => rulesets'[n] = rulesets[n]
       /\ ((ListedTeamFile \/ ListedArchivedFile) /\ ListedRepositoryFails)
            => (OneMoreError /\ repos' = repos /\ pc' = pc)
       /\ ((ListedTeamFile \/ ListedArchivedFile) /\ ListedRepositoryValid
                /\ TrimExt(ListedName) \notin DOMAIN repos)
            => /\ errors' = errors /\ pc' = pc
               /\ TrimExt(ListedName) \in DOMAIN repos'
               /\ repos'[TrimExt(ListedName)].Name = TrimExt(ListedName)
               /\ repos'[TrimExt(ListedName)].DirectoryPath = Dir(entry'.path)
       /\ \A n \in DOMAIN repos : n \in DOMAIN repos' /\ repos'[n] = repos[n]
       /\ Len(errors') >= Len(errors)]_vars

\* the file listed last was loaded into the map after an earlier file had
\* failed to parse
C5_Witness ==
    /\ pc = "done"
    /\ ret = "map"
    /\ Len(errors) = 1
    /\ errors[1].kind = "parse"
    /\ ~entry.isDir
    /\ \E n \in DOMAIN repos :
        /\ repos[n].Owner # <<>>
        /\ repos[n].DirectoryPath = Dir(entry.path)
        /\ n = TrimExt(Base(entry.path))

\* C6: a valid file directly in the archive directory enters the map archived
\* and unowned whatever its document says, an invalid one is rejected with
\* the error of Repository.Validate, the team tree never changes or removes an
\* archived entry, and no entry is both archived and owned.
C6_ArchivedUnowned ==
    /\ [](\A n \in DOMAIN repos : ~(repos[n].Archived /\ repos[n].Owner # <<>>))
    /\ [][/\ (ListedArchivedFile /\ ListedRepositoryValid)
                => /\ TrimExt(ListedName) \in DOMAIN repos'
                   /\ repos'[TrimExt(ListedName)].Archived
                   /\ repos'[TrimExt(ListedName)].Owner = <<>>
                   /\ repos'[TrimExt(ListedName)].Name = TrimExt(ListedName)
          /\ (ListedArchivedFile /\ entry'.content # <<>>
                /\ GithubAnsiString(ListedRepository.Name) # ListedRepository.Name)
                => (OneMoreError /\ repos' = repos)
          /\ \A n \in DOMAIN repos :
                repos[n].Archived => (n \in DOMAIN repos' /\ repos'[n] = repos[n])]_vars

\* the archived repository b, whose document says archived: false, is
\* returned next to a repository of the team tree
C6_Witness ==
    /\ pc = "done"
    /\ ret = "map"
    /\ <<"b">> \in DOMAIN repos
    /\ repos[<<"b">>].Archived
    /\ repos[<<"b">>].Owner = <<>>
    /\ \E n \in DOMAIN repos : repos[n].Owner # <<>>

\* C7: for required_status_checks the result is true exactly when the two
\* check lists hold the same names and the strict flags agree; no reordering
\* of a list and no pull-request field changes it, and changing one strict
\* flag alone makes a true result false.
C7_StatusChecks ==
    (cpc = "ret" /\ ruletype = "required_status_checks") =>
        LET names(p) == {p.RequiredStatusChecks[i] : i \in DOMAIN p.RequiredStatusChecks}
            n == Len(left.RequiredStatusChecks)
            swap(s, i, j) == [s EXCEPT ![i] = s[j], ![j] = s[i]]
            same(l, r) == CompareRulesetParameters(ruletype, l, r) = equal
        IN  /\ equal = (/\ names(left) = names(right)
                        /\ left.StrictRequiredStatusChecksPolicy = right.StrictRequiredStatusChecksPolicy)
            \* exchanging two entries of a list, and so every reordering
            /\ \A i, j \in 1..n :
                   same([left EXCEPT !.RequiredStatusChecks = swap(@, i, j)], right)
            /\ \A i, j \in DOMAIN right.RequiredStatusChecks :
                   same(left, [right EXCEPT !.RequiredStatusChecks = swap(@, i, j)])
            /\ equal => ~CompareRulesetParameters(ruletype,
                       [left EXCEPT !.StrictRequiredStatusChecksPolicy = ~@], right)
            \* changing one review field, and so any number of them
            /\ same([left EXCEPT !.DismissStaleReviewsOnPush = ~@], right)
            /\ same([left EXCEPT !.RequireCodeOwnerReview = ~@], right)
            /\ same([left EXCEPT !.RequiredReviewThreadResolution = ~@], right)
            /\ same([left EXCEPT !.RequireLastPushApproval = ~@], right)
            /\ \A k \in 0..MaxReviewCount :
                   same([left EXCEPT !.RequiredApprovingReviewCount = k], right)

\* the lists a,b and b,a were found equivalent
C7_Witness ==
    /\ cpc = "ret"
    /\ ruletype = "required_status_checks"
    /\ left.RequiredStatusChecks = <<"a", "b">>
    /\ right.RequiredStatusChecks = <<"b", "a">>
    /\ left.RequireCodeOwnerReview # right.RequireCodeOwnerReview
    /\ equal

\* C8: for pull_request the result is true exactly when the five review
\* fields are pairwise equal; it is true for (p, p).
C8_PullRequest ==
    (cpc = "ret" /\ ruletype = "pull_request") =>
        /\ equal = (/\ left.DismissStaleReviewsOnPush = right.DismissStaleReviewsOnPush
                    /\ left.RequireCodeOwnerReview = right.RequireCodeOwnerReview
                    /\ left.RequiredApprovingReviewCount = right.RequiredApprovingReviewCount
                    /\ left.RequiredReviewThreadResolution = right.RequiredReviewThreadResolution
                    /\ left.RequireLastPushApproval = right.RequireLastPushApproval)
        /\ left = right => equal

\* the two arguments differ in the last-push flag only and are not equivalent
C8_Witness ==
    /\ cpc = "ret"
    /\ ruletype = "pull_request"
    /\ right = [left EXCEPT !.RequireLastPushApproval = ~@]
    /\ ~equal

\* which of the eight checks of RuleSet.Validate the listed document fails
ListedViolations ==
    LET d == entry'.content[1]
    IN  <<d.ApiVersion # "v1",
          d.Kind # "Ruleset",
          d.Name = <<>>,
          d.Name # TrimExt(ListedName),
          \E i \in DOMAIN d.Rules :
              d.Rules[i].Ruletype \notin {"required_signatures", "pull_request", "required_status_checks"},
          d.Enforcement \notin {"disable", "active", "evaluate"},
          \E i \in DOMAIN d.BypassApps : d.BypassApps[i].Mode \notin {"always", "pull_request"},
          \E i \in DOMAIN d.Include :
              /\ d.Include[i] # <<>>
              /\ d.Include[i][1] = "~"
              /\ d.Include[i] \notin {<<"~", "DEFAULT_BRANCH">>, <<"~", "ALL">>}>>

C10_NoPanic == pc # "crashed"

====
